---- MODULE Spec2Model ----
(***************************************************************************)
(* Model of the cloud-builder service (services/cloud-service) and of the  *)
(* S3 helpers it calls (libs/aws.js).  The four request handlers (create,  *)
(* find, get, update) are async functions: a handler runs up to its next   *)
(* `await` and goes on when the awaited call is answered, so the requests  *)
(* the service has in flight interleave at their awaits.  A request is a   *)
(* record holding its handler's position and local variables.  StartCreate,*)
(* StartFind, StartGet and StartUpdate run a handler up to its first       *)
(* await.  Answer is a collaborator (settings service, media-store         *)
(* service, S3) performing the awaited call and answering it, by resolving *)
(* or by rejecting, followed by the handler's run up to its next await or  *)
(* its return; between a call's effect and the handler's next call the     *)
(* handler touches no store, so the two make one step.  A request that has *)
(* returned stays in its slot until its caller has the response (Retire),  *)
(* the stores changing meanwhile.  The media-store service is registered   *)
(* on a public path as well: its other clients create, patch and remove    *)
(* records (MediaStoreClient).                                             *)
(***************************************************************************)
EXTENDS Integers, Sequences, FiniteSets, TLC

VARIABLES
  settings,   \* settings.data as the settings service returns it for the user
  media,      \* the media-store collection, in insertion order
  nextId,     \* the _id the media-store gives its next record
  objects,    \* the object store: <<bucket, key>> -> body
  reqs        \* the requests being served, and the served ones not yet retired

vars == <<settings, media, nextId, objects, reqs>>

\* ------------------------------------------------------------ bounds
\* Records the media-store ever holds (created ones and ones being created).
MaxMedia == 2
\* Requests in the service at once.
MaxInFlight == 2

\* ------------------------------------------------------------ JS values
Undefined == "<undefined>"
UndefinedObj == [isUndefined |-> TRUE]
Falsy(v) == v = Undefined \/ v = ""
\* obj.field of an object: undefined when the object has no such property
Field(obj, field) == IF field \in DOMAIN obj THEN obj[field] ELSE Undefined
\* obj?.field
Opt(obj, field) == IF obj = UndefinedObj THEN Undefined ELSE Field(obj, field)
\* A JS array: an object whose elements are `items`
Array(seq) == [items |-> seq]

\* ------------------------------------------------------------ constants.js
CLOUD_SITES_S3 == "s3"
NO_SUCH_BUCKET == "NoSuchBucket"
INVALID_BUCKET_NAME == "InvalidBucketName"
BUCKET_ALREADY_EXISTS == "BucketAlreadyExists"
BUCKET_ALREADY_OWNED_BY_YOU == "BucketAlreadyOwnedByYou"

\* process.env
S3_DIRECTORY == "dir"
S3_REGION == "eu-central-1"

\* ------------------------------------------------------------ answers and errors
\* How a collaborator answers an awaited call: it resolves, it rejects with an
\* error object (whose Code may be undefined), or it rejects with undefined
\* or null.
Ok == [failed |-> FALSE, nullish |-> FALSE, Code |-> Undefined]
Rejects(code) == [failed |-> TRUE, nullish |-> FALSE, Code |-> code]
RejectsNullish == [failed |-> TRUE, nullish |-> TRUE, Code |-> Undefined]
\* getObject resolving with an output that has no Body.
OkWithoutBody == [failed |-> FALSE, nullish |-> FALSE, Code |-> Undefined, noBody |-> TRUE]

\* A thrown value: an error object (TypeError, Error, provider error) or
\* undefined/null.
ErrorObject(code) == [nullish |-> FALSE, Code |-> code]
ErrorOf(o) == [nullish |-> o.nullish, Code |-> o.Code]

\* ------------------------------------------------------------ requests
Idle ==
  [op |-> "idle", req |-> UndefinedObj, pc |-> "idle", client |-> Undefined,
   region |-> Undefined, file |-> UndefinedObj, fileData |-> Undefined, calls |-> <<>>,
   result |-> [raised |-> FALSE, status |-> "none", data |-> UndefinedObj],
   caught |-> [thrown |-> FALSE, nullish |-> FALSE, Code |-> Undefined]]

\* A handler entered with arguments `req`.
Request(op, req) == [Idle EXCEPT !.op = op, !.req = req, !.pc = "entered"]

\* The handler awaits call `pc`; `client` is the region of the S3 client the
\* call goes through, if it is a provider call.
Awaits(r, pc, client) == [r EXCEPT !.pc = pc, !.client = client]
\* An error is thrown inside the handler's try block.
Throws(r, e) ==
  [r EXCEPT !.pc = "thrown",
            !.caught = [thrown |-> TRUE, nullish |-> e.nullish, Code |-> e.Code]]
\* The handler returns { status, data } to its caller.
Returns(r, status, data) ==
  [r EXCEPT !.pc = "done",
            !.result = [raised |-> FALSE, status |-> status, data |-> data]]
\* The handler's catch block throws: the request ends with an exception.
Raises(r) ==
  [r EXCEPT !.pc = "done",
            !.result = [raised |-> TRUE, status |-> "raised", data |-> "TypeError"]]

\* A call as the request's log holds it, with how it was answered.
Call(o, b, k, r, body) == [op |-> o, bucket |-> b, key |-> k, region |-> r, body |-> body]
Logged(r, call, o) ==
  [r EXCEPT !.calls = Append(@, call @@ [failed |-> o.failed, nullish |-> o.nullish,
                                         Code |-> o.Code])]

\* The stores a call reads and writes.
Stores(m, n, ob) == [media |-> m, nextId |-> n, objects |-> ob]
\* A handler's step: the request after it, and the stores after it.
Step(r, st) == [r |-> r, st |-> st]

\* ------------------------------------------------------------ media-store service
Matches(rec, query) == \A k \in DOMAIN query : rec[k] = query[k]

RECURSIVE Filter(_, _)
Filter(seq, query) ==
  IF seq = <<>> THEN <<>>
  ELSE IF Matches(Head(seq), query)
       THEN <<Head(seq)>> \o Filter(Tail(seq), query)
       ELSE Filter(Tail(seq), query)

MediaStoreFind(m, query) == [data |-> Filter(m, query)]

Holds(m, id) == \E i \in DOMAIN m : m[i]._id = id
\* get(id) of an id the collection does not hold rejects with NotFound (an
\* error object without Code).
MediaStoreGet(m, id) == m[CHOOSE i \in DOMAIN m : m[i]._id = id]

MediaStoreCreate(st, rec) ==
  [st EXCEPT !.media = Append(@, [_id |-> st.nextId] @@ rec), !.nextId = @ + 1]

Patched(rec, patch) ==
  [k \in DOMAIN rec |-> IF k \in DOMAIN patch THEN patch[k] ELSE rec[k]]

MediaStorePatch(m, id, patch) ==
  [i \in DOMAIN m |-> IF m[i]._id = id THEN Patched(m[i], patch) ELSE m[i]]

RECURSIVE MediaStoreRemove(_, _)
MediaStoreRemove(m, id) ==
  IF m = <<>> THEN <<>>
  ELSE IF Head(m)._id = id THEN Tail(m)
       ELSE <<Head(m)>> \o MediaStoreRemove(Tail(m), id)

\* ------------------------------------------------------------ libs/aws.js
DEFAULT_REGION == "us-east-1"

createS3Client(accessKeyId, secretAccessKey, region) ==
  IF Falsy(accessKeyId) \/ Falsy(secretAccessKey)
  THEN [thrown |-> TRUE, Code |-> Undefined, region |-> Undefined]
  ELSE [thrown |-> FALSE, Code |-> Undefined,
        region |-> IF Falsy(region) THEN DEFAULT_REGION ELSE region]

\* createS3Bucket up to its await: the client, then the createBucket call.
createS3Bucket(r, s3Data, region, name) ==
  LET accessKey == Field(s3Data, "accessKey")
      secretKey == Field(s3Data, "secretKey")
      s3 == createS3Client(accessKey, secretKey, region) IN
  IF s3.thrown THEN Throws(r, ErrorObject(s3.Code))
  ELSE Awaits(r, "createBucket", s3.region)

\* createS3Bucket from its await on: the answer is returned, or logged and
\* thrown again.
createS3BucketAnswered(r, name, o) ==
  LET l == Logged(r, Call("createBucket", name, Undefined, r.client, Undefined), o) IN
  IF o.failed THEN Throws(l, ErrorOf(o)) ELSE l

\* What the provider answers to listBuckets.
BucketListing == <<[Name |-> "b1"], [Name |-> "b2"]>>

getBucketList(r, s3Data) ==
  LET accessKey == Field(s3Data, "accessKey")
      secretKey == Field(s3Data, "secretKey")
      s3 == createS3Client(accessKey, secretKey, S3_REGION) IN
  IF s3.thrown THEN Throws(r, ErrorObject(s3.Code))
  ELSE Awaits(r, "listBuckets", s3.region)

getBucketListAnswered(r, o) ==
  LET l == Logged(r, Call("listBuckets", Undefined, Undefined, r.client, Undefined), o) IN
  IF o.failed THEN Throws(l, ErrorOf(o)) ELSE l

ObjectKey(userId, name) == S3_DIRECTORY \o "/" \o userId \o "/" \o name
\* uploadedFile.Location as the provider reports it.
LocationOf(bucket, key) == "https://" \o bucket \o ".s3.amazonaws.com/" \o key

Put(o, bucket, key, body) ==
  [k \in DOMAIN o \cup {<<bucket, key>>} |-> IF k = <<bucket, key>> THEN body ELSE o[k]]

s3Upload(r, userId, fileDetail, bucket, credentials) ==
  LET s3 == createS3Client(credentials.awsS3.accessKey, credentials.awsS3.secretKey,
                           credentials.region) IN
  IF s3.thrown THEN Throws(r, ErrorObject(s3.Code))
  ELSE Awaits(r, "upload", s3.region)

\* The upload is answered: the object is stored unless the provider rejects.
s3UploadAnswered(r, userId, fileDetail, bucket, o, st) ==
  LET key == ObjectKey(userId, fileDetail.name)
      l == Logged(r, Call("upload", bucket, key, r.client, fileDetail.html), o) IN
  IF o.failed THEN Step(Throws(l, ErrorOf(o)), st)
  ELSE Step(l, [st EXCEPT !.objects = Put(@, bucket, key, fileDetail.html)])

\* credentials is UndefinedObj when the caller passes no such argument:
\* reading a property of undefined throws a TypeError (no Code).
getS3File(r, key, bucket, credentials) ==
  IF credentials = UndefinedObj THEN Throws(r, ErrorObject(Undefined))
  ELSE
  LET s3 == createS3Client(credentials.accessKey, credentials.secretKey, credentials.region) IN
  IF s3.thrown THEN Throws(r, ErrorObject(s3.Code))
  ELSE Awaits(r, "getObject", s3.region)

\* getS3File from await s3.getObject to its second await: getObject of a key
\* the bucket does not hold rejects with NoSuchKey; on an output without Body
\* the read of Body.transformToString throws a TypeError; otherwise the
\* function awaits the body's conversion to a string.
getS3FileAnswered(r, key, bucket, o, st) ==
  LET stored == <<bucket, key>> \in DOMAIN st.objects
      a == IF ~o.failed /\ ~stored THEN Rejects("NoSuchKey") ELSE o
      l == Logged(r, Call("getObject", bucket, key, r.client, Undefined), a) IN
  IF a.failed THEN Throws(l, ErrorOf(a))
  ELSE IF "noBody" \in DOMAIN a THEN Throws(l, ErrorObject(Undefined))
  ELSE Awaits([l EXCEPT !.fileData = st.objects[<<bucket, key>>]], "transformToString", r.client)

\* getS3File from await fileData.Body.transformToString() on: the string is
\* returned, or the rejection logged and thrown again.
getS3FileTransformed(r, o) ==
  IF o.failed THEN Throws(r, ErrorOf(o)) ELSE r

\* { body: buf }, buf being the object's content as a string
FileBody(buf) == [body |-> buf]

updateS3File(r, userId, body, fileDetail, credentials) ==
  IF credentials = UndefinedObj THEN Throws(r, ErrorObject(Undefined))
  ELSE
  LET s3 == createS3Client(credentials.accessKey, credentials.secretKey, fileDetail.region) IN
  IF s3.thrown THEN Throws(r, ErrorObject(s3.Code))
  ELSE Awaits(r, "putObject", s3.region)

updateS3FileAnswered(r, body, fileDetail, o, st) ==
  LET l == Logged(r, Call("putObject", fileDetail.bucket, fileDetail.key, r.client, body), o) IN
  IF o.failed THEN Step(Throws(l, ErrorOf(o)), st)
  ELSE Step(l, [st EXCEPT !.objects = Put(@, fileDetail.bucket, fileDetail.key, body)])

\* ------------------------------------------------------------ cloud-builder.class.js
\* getMedia / getMediaById / updateMediaById / saveToDatabase from their
\* await on: the media-store's answer is logged, and returned or thrown.
\* The log keeps, of the collection a find was answered from, what the
\* handlers' queries select on and read.
Digest(m) ==
  [i \in DOMAIN m |-> [userId |-> m[i].userId, bucket |-> m[i].bucket,
                        region |-> m[i].region, type |-> m[i].type]]

getMedia(r, query, o, st) ==
  LET l == Logged(r, Call("mediaFind", Undefined, Undefined, Undefined, Undefined)
                       @@ [seen |-> Digest(st.media)], o) IN
  IF o.failed THEN Throws(l, ErrorOf(o)) ELSE l

getMediaById(r, id, o, st) ==
  LET a == IF ~o.failed /\ ~Holds(st.media, id) THEN Rejects(Undefined) ELSE o
      l == Logged(r, Call("mediaGet", Undefined, Undefined, Undefined, Undefined), a) IN
  IF a.failed THEN Throws(l, ErrorOf(a))
  ELSE [l EXCEPT !.file = MediaStoreGet(st.media, id)]

updateMediaById(r, id, data, o, st) ==
  LET a == IF ~o.failed /\ ~Holds(st.media, id) THEN Rejects(Undefined) ELSE o
      l == Logged(r, Call("mediaPatch", Undefined, Undefined, Undefined, Undefined), a) IN
  IF a.failed THEN Step(Throws(l, ErrorOf(a)), st)
  ELSE Step(l, [st EXCEPT !.media = MediaStorePatch(@, id, data)])

\* The record saveToDatabase hands to the media-store.
MediaRecord(uploadedData, fileDetail, userId, region) ==
  [userId |-> userId,
   name |-> fileDetail.name,
   thumb |-> uploadedData.location,
   key |-> uploadedData.key,
   bucket |-> uploadedData.bucket,
   region |-> region,
   type |-> "html",
   cloud |-> fileDetail.cloud]

saveToDatabase(r, uploadedData, fileDetail, userId, region, o, st) ==
  LET rec == MediaRecord(uploadedData, fileDetail, userId, region)
      l == Logged(r, Call("mediaCreate", rec.bucket, rec.key, rec.region, Undefined), o) IN
  IF o.failed THEN Step(Throws(l, ErrorOf(o)), st)
  ELSE Step(l, MediaStoreCreate(st, rec))

\* mediaObj.data[0]?.region
FirstRegion(mediaObj) ==
  IF Len(mediaObj.data) > 0 THEN mediaObj.data[1].region ELSE Undefined

\* awsS3.find(s3 => s3.label === label)
ArrayFind(awsS3, label) ==
  LET hits == {i \in DOMAIN awsS3.items : awsS3.items[i].label = label} IN
  IF hits = {} THEN UndefinedObj
  ELSE awsS3.items[CHOOSE i \in hits : \A j \in hits : i <= j]

\* The create handler's selectedAWSS3, once its settings lookup has resolved.
selectedAWSS3(r) == ArrayFind(settings[1].awsS3, r.req.data.awsAccount)

\* What s3Upload returns for the request's object.
UploadedData(r) ==
  LET key == ObjectKey(r.req.user, r.req.data.name) IN
  [location |-> LocationOf(r.req.data.bucket, key), bucket |-> r.req.data.bucket, key |-> key]

\* addObjectS3 from the upload on, `region` being set.
addObjectS3_upload(r) ==
  s3Upload(r, r.req.user, r.req.data, r.req.data.bucket,
           [region |-> r.region, awsS3 |-> selectedAWSS3(r)])

\* The region lookup's query, for any user's records.
RegionQuery_AnyUser(userId, data) == [bucket |-> data.bucket]

RegionQuery(userId, data) == [userId |-> userId, bucket |-> data.bucket]

\* addObjectS3 from `let region` on.
addObjectS3_region(r) ==
  IF Falsy(r.req.data.region) THEN Awaits(r, "mediaFind", Undefined)
  ELSE addObjectS3_upload([r EXCEPT !.region = r.req.data.region])

\* The bucket is to be created whenever one is named.
NewBucketWanted_AnyBucket(data) == ~Falsy(data.bucket)

\* data.bucket && data.newBucket
NewBucketWanted(data) == ~Falsy(data.bucket) /\ data.newBucket

addObjectS3(r) ==
  IF NewBucketWanted(r.req.data)
  THEN createS3Bucket(r, selectedAWSS3(r), r.req.data.region, r.req.data.bucket)
  ELSE addObjectS3_region(r)

createMessage(Code) ==
  CASE Code = NO_SUCH_BUCKET -> "The specified bucket does not exist."
    [] Code = INVALID_BUCKET_NAME -> "The specified bucket is not valid."
    [] Code = BUCKET_ALREADY_EXISTS -> "The specified bucket already exists."
    [] Code = BUCKET_ALREADY_OWNED_BY_YOU -> "The specified bucket already owned by you."
    [] OTHER -> "Something went wrong. Please try again!"

\* create's catch block reads e.Code: of undefined or null that read throws a
\* TypeError, which leaves the handler.
createCatch(r) ==
  IF r.caught.nullish THEN Raises(r)
  ELSE Returns(r, "error", createMessage(r.caught.Code))

\* create from the answer of its settings lookup to its next await or return.
createBody(r) ==
  LET data == r.req.data IN
  IF Len(settings) = 0 THEN Throws(r, ErrorObject(Undefined))
  ELSE IF data = UndefinedObj THEN Throws(r, ErrorObject(Undefined))
  ELSE
  IF data.cloud = CLOUD_SITES_S3
  THEN IF Falsy(Opt(selectedAWSS3(r), "secretKey")) \/ Falsy(Opt(selectedAWSS3(r), "accessKey"))
       THEN Returns(r, "error", "AWS credentials are missing.")
       ELSE addObjectS3(r)
  ELSE Returns(r, "success", UndefinedObj)

\* create goes on when the call it awaits is answered by `o`.
createAnswered(r, o, st) ==
  LET data == r.req.data
      userId == r.req.user IN
  CASE r.pc = "settingsFind" ->
         LET l == Logged(r, Call("settingsFind", Undefined, Undefined, Undefined, Undefined), o) IN
         Step(IF o.failed THEN Throws(l, ErrorOf(o)) ELSE createBody(l), st)
    [] r.pc = "createBucket" ->
         LET b == createS3BucketAnswered(r, data.bucket, o) IN
         Step(IF b.pc = "thrown" THEN b ELSE addObjectS3_region(b), st)
    [] r.pc = "mediaFind" ->
         LET query == RegionQuery(userId, data)
             m == getMedia(r, query, o, st) IN
         Step(IF m.pc = "thrown" THEN m
              ELSE addObjectS3_upload(
                     [m EXCEPT !.region = FirstRegion(MediaStoreFind(st.media, query))]), st)
    [] r.pc = "upload" ->
         LET u == s3UploadAnswered(r, userId, data, data.bucket, o, st) IN
         IF u.r.pc = "thrown" THEN u
         ELSE Step(Awaits(u.r, "mediaCreate", Undefined), u.st)
    [] r.pc = "mediaCreate" ->
         LET s == saveToDatabase(r, UploadedData(r), data, userId, r.region, o, st) IN
         IF s.r.pc = "thrown" THEN s
         ELSE Step(Returns(s.r, "success",
                           [location |-> UploadedData(r).location, _id |-> st.nextId,
                            name |-> data.name]), s.st)

\* create's try block ends in its catch block when an error is thrown.
create(x) == IF x.r.pc = "thrown" THEN Step(createCatch(x.r), x.st) ELSE x

GenericCatch(r) == Returns(r, "error", "Something went wrong. Please try again!")

HtmlQuery(query) == [k \in DOMAIN query \cup {"type"} |-> IF k = "type" THEN "html" ELSE query[k]]

\* find up to its first await.
findEntered(r) ==
  IF r.req.query = UndefinedObj THEN Throws(r, ErrorObject(Undefined))
  ELSE IF "bucketList" \in DOMAIN r.req.query THEN Awaits(r, "settingsFind", Undefined)
  ELSE Awaits(r, "mediaFind", Undefined)

findAnswered(r, o, st) ==
  CASE r.pc = "settingsFind" ->
         LET l == Logged(r, Call("settingsFind", Undefined, Undefined, Undefined, Undefined), o) IN
         IF o.failed THEN Throws(l, ErrorOf(o))
         ELSE IF Len(settings) = 0 THEN Throws(l, ErrorObject(Undefined))
         ELSE getBucketList(l, settings[1].awsS3)
    [] r.pc = "listBuckets" ->
         LET b == getBucketListAnswered(r, o) IN
         IF b.pc = "thrown" THEN b ELSE Returns(b, "success", BucketListing)
    [] r.pc = "mediaFind" ->
         LET query == HtmlQuery(r.req.query)
             m == getMedia(r, query, o, st) IN
         IF m.pc = "thrown" THEN m
         ELSE Returns(m, "success", MediaStoreFind(st.media, query))

findCatch(r) == GenericCatch(r)

find(r) == IF r.pc = "thrown" THEN findCatch(r) ELSE r

getAnswered(r, o, st) ==
  CASE r.pc = "mediaGet" ->
         LET m == getMediaById(r, r.req.id, o, st) IN
         IF m.pc = "thrown" THEN m
         ELSE getS3File(m, m.file.key, m.file.bucket, UndefinedObj)
    [] r.pc = "getObject" ->
         getS3FileAnswered(r, r.file.key, r.file.bucket, o, st)
    [] r.pc = "transformToString" ->
         LET g == getS3FileTransformed(r, o) IN
         IF g.pc = "thrown" THEN g
         ELSE Returns(g, "success", FileBody(g.fileData))

getCatch(r) == GenericCatch(r)

get(r) == IF r.pc = "thrown" THEN getCatch(r) ELSE r

\* update up to its first await.
updateEntered(r) ==
  IF r.req.data = UndefinedObj THEN Throws(r, ErrorObject(Undefined))
  ELSE Awaits(r, "mediaGet", Undefined)

\* update, its record found, patching the record before the overwrite.
updateFound_PatchesFirst(r) == Awaits(r, "mediaPatch", Undefined)

\* update, its record found, up to its next await.
updateFound(r) == updateS3File(r, r.req.user, r.req.data.html, r.file, UndefinedObj)

updateAnswered(r, o, st) ==
  CASE r.pc = "mediaGet" ->
         LET m == getMediaById(r, r.req.data._id, o, st) IN
         Step(IF m.pc = "thrown" THEN m ELSE updateFound(m), st)
    [] r.pc = "putObject" ->
         LET u == updateS3FileAnswered(r, r.req.data.html, r.file, o, st) IN
         IF u.r.pc = "thrown" THEN u
         ELSE Step(Awaits(u.r, "mediaPatch", Undefined), u.st)
    [] r.pc = "mediaPatch" ->
         LET p == updateMediaById(r, r.req.data._id, [name |-> r.req.data.name], o, st) IN
         IF p.r.pc = "thrown" THEN p
         ELSE Step(Returns(p.r, "success",
                           [location |-> "",
                            name |-> MediaStoreGet(p.st.media, r.req.data._id).name]), p.st)

updateCatch(r) == GenericCatch(r)

update(x) == IF x.r.pc = "thrown" THEN Step(updateCatch(x.r), x.st) ELSE x

\* ------------------------------------------------------------ inputs
Users == {"u1"}
Accounts == {"acct1", "acct2", "acct3", "acct4"}
Clouds == {CLOUD_SITES_S3, "gcs"}
ErrorCodes == {NO_SUCH_BUCKET, INVALID_BUCKET_NAME, BUCKET_ALREADY_EXISTS,
               BUCKET_ALREADY_OWNED_BY_YOU, "AccessDenied", Undefined}

Cred(label, accessKey, secretKey) ==
  [label |-> label, accessKey |-> accessKey, secretKey |-> secretKey]

\* settings.data: no settings record, or one whose awsS3 holds a complete
\* credential set, one without secretKey and one with an empty accessKey.
SettingsChoices ==
  { <<>>,
    <<[awsS3 |-> Array(<<Cred("acct1", "AK1", "SK1"),
                         Cred("acct2", "AK2", Undefined),
                         Cred("acct3", "", "SK3")>>)]>> }

\* The answers a collaborator may give to the call a handler awaits.
Answers(pc) ==
  CASE pc = "createBucket" -> {Ok, RejectsNullish} \cup {Rejects(c) : c \in ErrorCodes}
    [] pc = "upload" -> {Ok, RejectsNullish, Rejects(NO_SUCH_BUCKET)}
    [] pc = "getObject" -> {Ok, OkWithoutBody, RejectsNullish, Rejects("AccessDenied")}
    [] pc \in {"listBuckets", "putObject"} -> {Ok, RejectsNullish, Rejects("AccessDenied")}
    [] OTHER -> {Ok, RejectsNullish, Rejects(Undefined)}

\* Requests with complete credentials vary in everything addObjectS3 reads;
\* the others end before it and vary in the account and the provider only.
\* UndefinedObj is a call without data.
CreateData ==
  [cloud : {CLOUD_SITES_S3}, awsAccount : {"acct1"}, bucket : {"b1"}, newBucket : BOOLEAN,
   region : {"eu-west-1"}, name : {"doc.html"}, html : {"<p>hi</p>"}]
  \cup
  [cloud : {CLOUD_SITES_S3}, awsAccount : {"acct1"}, bucket : {"b1"}, newBucket : BOOLEAN,
   region : {Undefined}, name : {"doc.html"}, html : {"<p>yo</p>"}]
  \cup
  [cloud : {CLOUD_SITES_S3}, awsAccount : {"acct1"}, bucket : {""}, newBucket : {TRUE},
   region : {Undefined}, name : {"doc.html"}, html : {"<p>hi</p>"}]
  \cup
  [cloud : {CLOUD_SITES_S3}, awsAccount : Accounts \ {"acct1"}, bucket : {"b1"},
   newBucket : {TRUE}, region : {"eu-west-1"}, name : {"doc.html"}, html : {"<p>hi</p>"}]
  \cup
  [cloud : Clouds \ {CLOUD_SITES_S3}, awsAccount : {"acct1", "acct4"}, bucket : {"b1"},
   newBucket : {TRUE}, region : {"eu-west-1"}, name : {"doc.html"}, html : {"<p>hi</p>"}]
  \cup {UndefinedObj}
\* params.query; UndefinedObj is a params without query.
Queries ==
  { UndefinedObj, [bucketList |-> "true"], [bucket |-> "b1", type |-> "image"] }
Ids == 1 .. (MaxMedia + 1)
UpdateData == [_id : Ids, html : {"<p>yo</p>"}, name : {"new.html"}] \cup {UndefinedObj}

\* A record another client of the media-store service keeps there.
ForeignRecord ==
  [userId |-> "u2", name |-> "pic.png",
   thumb |-> LocationOf("b1", ObjectKey("u2", "pic.png")),
   key |-> ObjectKey("u2", "pic.png"), bucket |-> "b1", region |-> "ap-south-1",
   type |-> "image", cloud |-> CLOUD_SITES_S3]

\* ------------------------------------------------------------ the state machine
Slots == 1 .. MaxInFlight

Init ==
  /\ settings \in SettingsChoices
  /\ media = <<>>
  /\ nextId = 1
  /\ objects = <<>>
  /\ reqs = [s \in Slots |-> Idle]

\* A new request takes the first free slot.
Free(s) == reqs[s].op = "idle" /\ \A t \in Slots : t < s => reqs[t].op # "idle"
\* The creates that have not returned yet.
Creating == {s \in Slots : reqs[s].op = "create" /\ reqs[s].pc # "done"}
Room == (nextId - 1) + Cardinality(Creating) < MaxMedia

Serve(s, r) ==
  /\ reqs' = [reqs EXCEPT ![s] = r]
  /\ UNCHANGED <<settings, media, nextId, objects>>

StartCreate(s) ==
  /\ Free(s) /\ Room
  /\ \E data \in CreateData, user \in Users :
       Serve(s, Awaits(Request("create", [data |-> data, user |-> user]),
                       "settingsFind", Undefined))

StartFind(s) ==
  /\ Free(s)
  /\ \E query \in Queries, user \in Users :
       Serve(s, find(findEntered(Request("find", [query |-> query, user |-> user]))))

StartGet(s) ==
  /\ Free(s)
  /\ \E id \in Ids, user \in Users :
       Serve(s, Awaits(Request("get", [id |-> id, user |-> user]), "mediaGet", Undefined))

StartUpdate(s) ==
  /\ Free(s)
  /\ \E data \in UpdateData, user \in Users :
       Serve(s, update(Step(updateEntered(Request("update", [data |-> data, user |-> user])),
                            UndefinedObj)).r)

\* A collaborator answers the call the request in slot s awaits.
Answer(s) ==
  /\ reqs[s].pc \notin {"idle", "done"}
  /\ \E o \in Answers(reqs[s].pc) :
       LET r == reqs[s]
           st == Stores(media, nextId, objects)
           x == CASE r.op = "create" -> create(createAnswered(r, o, st))
                  [] r.op = "find" -> Step(find(findAnswered(r, o, st)), st)
                  [] r.op = "get" -> Step(get(getAnswered(r, o, st)), st)
                  [] r.op = "update" -> update(updateAnswered(r, o, st)) IN
       /\ reqs' = [reqs EXCEPT ![s] = x.r]
       /\ media' = x.st.media
       /\ nextId' = x.st.nextId
       /\ objects' = x.st.objects
       /\ UNCHANGED settings

\* The caller has its response; the slot is free again.
Retire(s) ==
  /\ reqs[s].pc = "done"
  /\ Serve(s, Idle)

\* Another client of the media-store service creates, renames or removes a
\* record.
MediaStoreClient ==
  /\ \/ /\ Room
        /\ media' = MediaStoreCreate(Stores(media, nextId, objects), ForeignRecord).media
        /\ nextId' = nextId + 1
     \/ /\ \E i \in DOMAIN media :
             /\ media[i].name # "pic.png"
             /\ media' = MediaStorePatch(media, media[i]._id, [name |-> "pic.png"])
        /\ UNCHANGED nextId
     \/ /\ \E i \in DOMAIN media : media' = MediaStoreRemove(media, media[i]._id)
        /\ UNCHANGED nextId
  /\ UNCHANGED <<settings, objects, reqs>>

Next ==
  \/ \E s \in Slots :
       StartCreate(s) \/ StartFind(s) \/ StartGet(s) \/ StartUpdate(s) \/ Answer(s) \/ Retire(s)
  \/ MediaStoreClient

Spec == Init /\ [][Next]_vars

\* ------------------------------------------------------------ terms of the properties
Handlers == {"create", "find", "get", "update"}
\* The request has returned to its caller.
Served(r) == r.pc = "done"
CreateWithData(r) == r.op = "create" /\ r.req.data # UndefinedObj
UpdateWithData(r) == r.op = "update" /\ r.req.data # UndefinedObj
ProviderOps == {"createBucket", "listBuckets", "upload", "getObject", "putObject"}
\* Calls answered so far, and the call awaited.
Answered(r, o) == \E i \in DOMAIN r.calls : r.calls[i].op = o
Issued(r, o) == Answered(r, o) \/ r.pc = o
Failed(r, o) == \E i \in DOMAIN r.calls : r.calls[i].op = o /\ r.calls[i].failed
Succeeded(r, o) == \E i \in DOMAIN r.calls : r.calls[i].op = o /\ ~r.calls[i].failed
NoCallFailed(r) == \A i \in DOMAIN r.calls : ~r.calls[i].failed
CallOps(r) ==
  [i \in DOMAIN r.calls |-> r.calls[i].op]
    \o (IF r.pc \in {"entered", "thrown", "done", "idle"} THEN <<>> ELSE <<r.pc>>)
IsPrefix(s, t) == Len(s) <= Len(t) /\ \A i \in DOMAIN s : s[i] = t[i]
GenericMessage == "Something went wrong. Please try again!"
KnownCodes == {"NoSuchBucket", "InvalidBucketName", "BucketAlreadyExists",
               "BucketAlreadyOwnedByYou"}

\* The user's settings hold a credential set labelled `label` with both keys.
CredentialsStored(label) ==
  /\ settings # <<>>
  /\ \E i \in DOMAIN settings[1].awsS3.items :
       /\ settings[1].awsS3.items[i].label = label
       /\ settings[1].awsS3.items[i].accessKey \notin {"", Undefined}
       /\ settings[1].awsS3.items[i].secretKey \notin {"", Undefined}

\* ------------------------------------------------------------ C1
\* C1 as stated: every create whose account label has no complete credential
\* set returns status "error" and issues no provider call and no media write.
C1_MissingCredentialsIsError ==
  \A s \in Slots :
    (CreateWithData(reqs[s]) /\ ~CredentialsStored(reqs[s].req.data.awsAccount)) =>
      /\ \A o \in ProviderOps \cup {"mediaCreate"} : ~Issued(reqs[s], o)
      /\ Served(reqs[s]) => reqs[s].result.status = "error"

\* ------------------------------------------------------------ C2
\* A call of the request was rejected with undefined or null.
RejectedNullish(r) == \E i \in DOMAIN r.calls : r.calls[i].nullish

ErrorMessages(r) ==
  \A i \in DOMAIN r.calls : r.calls[i].failed =>
    /\ r.result.status = "error"
    /\ r.calls[i].Code = "NoSuchBucket"
         => r.result.data = "The specified bucket does not exist."
    /\ r.calls[i].Code = "InvalidBucketName"
         => r.result.data = "The specified bucket is not valid."
    /\ r.calls[i].Code = "BucketAlreadyExists"
         => r.result.data = "The specified bucket already exists."
    /\ r.calls[i].Code = "BucketAlreadyOwnedByYou"
         => r.result.data = "The specified bucket already owned by you."
    /\ r.calls[i].Code \notin KnownCodes => r.result.data = GenericMessage

\* C2 as stated: a create in which a call failed with one of the four known
\* codes returns {error, the fixed message of that code}; with any other code
\* or no code it returns {error, the generic message}.
C2_ErrorMessages ==
  \A s \in Slots :
    (reqs[s].op = "create" /\ Served(reqs[s])) => ErrorMessages(reqs[s])

\* What does hold: the same of the creates whose failed call was rejected
\* with an error object.
C2_ErrorObjectMessages ==
  \A s \in Slots :
    (reqs[s].op = "create" /\ Served(reqs[s]) /\ ~RejectedNullish(reqs[s]))
      => ErrorMessages(reqs[s])

\* ------------------------------------------------------------ C3
NeverRaises(r) ==
  /\ ~r.result.raised
  /\ (r.caught.thrown \/ ~NoCallFailed(r)) =>
       /\ r.result.status = "error"
       /\ r.result.data \in {GenericMessage,
                              "The specified bucket does not exist.",
                              "The specified bucket is not valid.",
                              "The specified bucket already exists.",
                              "The specified bucket already owned by you."}

\* C3 as stated: no handler raises; whenever a collaborator call failed or an
\* error was thrown inside a handler, the handler returned {error, <message>}.
C3_NeverRaises ==
  \A s \in Slots :
    (reqs[s].op \in Handlers /\ Served(reqs[s])) => NeverRaises(reqs[s])

\* What does hold: find, get and update never raise, and create does not
\* unless a call it awaited was rejected with undefined or null.
C3_RaisesOnNullishOnly ==
  \A s \in Slots :
    (/\ reqs[s].op \in Handlers /\ Served(reqs[s])
     /\ (reqs[s].op = "create" => ~RejectedNullish(reqs[s])))
      => NeverRaises(reqs[s])

\* ------------------------------------------------------------ C4
\* C4 as stated: a get of the id a successful create returned, with no
\* collaborator failing, returns {success, the content that was uploaded}.
C4_RoundTrip ==
  \A s, t \in Slots :
    (/\ CreateWithData(reqs[s]) /\ Served(reqs[s]) /\ reqs[s].result.status = "success"
     /\ reqs[s].req.data.cloud = "s3"
     /\ reqs[t].op = "get" /\ Served(reqs[t])
     /\ reqs[t].req.id = reqs[s].result.data._id
     /\ NoCallFailed(reqs[t]))
      => /\ reqs[t].result.status = "success"
         /\ reqs[t].result.data = reqs[s].req.data.html

\* ------------------------------------------------------------ C5
\* C5 as stated: an update of an existing record, no collaborator failing,
\* returns {success, {location, name}} and leaves the object holding the new
\* content. It is stated of every served update, so of the first and of the
\* second of two equal updates in a row.
C5_UpdateTwice ==
  \A s \in Slots :
    (/\ UpdateWithData(reqs[s]) /\ Served(reqs[s])
     /\ Succeeded(reqs[s], "mediaGet") /\ NoCallFailed(reqs[s]))
      => /\ reqs[s].result.status = "success"
         /\ DOMAIN reqs[s].result.data = {"location", "name"}
         /\ <<reqs[s].file.bucket, reqs[s].file.key>> \in DOMAIN objects
         /\ objects[<<reqs[s].file.bucket, reqs[s].file.key>>] = reqs[s].req.data.html

\* ------------------------------------------------------------ C6
\* C6 as stated: find with bucketList in the query, by a user with complete
\* stored credentials, returns {success, the provider's bucket list}; find
\* without it returns the records that matched the query with type "html"
\* when the media-store answered.
C6_Find ==
  \A s \in Slots :
    (/\ reqs[s].op = "find" /\ Served(reqs[s])
     /\ reqs[s].req.query # UndefinedObj /\ NoCallFailed(reqs[s])) =>
      IF "bucketList" \in DOMAIN reqs[s].req.query
      THEN CredentialsStored("acct1") =>
             reqs[s].result.status = "success" /\ reqs[s].result.data = BucketListing
      ELSE /\ reqs[s].result.status = "success"
           /\ \A i \in DOMAIN reqs[s].result.data.data :
                /\ reqs[s].result.data.data[i].type = "html"
                /\ \A k \in DOMAIN reqs[s].req.query \ {"type"} :
                     reqs[s].result.data.data[i][k] = reqs[s].req.query[k]
           /\ Len(reqs[s].result.data.data) =
                Cardinality({i \in DOMAIN reqs[s].calls[1].seen :
                   /\ reqs[s].calls[1].seen[i].type = "html"
                   /\ \A k \in DOMAIN reqs[s].req.query \ {"type"} :
                        reqs[s].calls[1].seen[i][k] = reqs[s].req.query[k]})

\* ------------------------------------------------------------ C7
\* The collection as the media-store held it when it answered the request's
\* region lookup, and the user's records for the bucket among them.
Seen(r) == r.calls[CHOOSE i \in DOMAIN r.calls : r.calls[i].op = "mediaFind"].seen
PriorRecords(r) ==
  {i \in DOMAIN Seen(r) :
     Seen(r)[i].userId = r.req.user /\ Seen(r)[i].bucket = r.req.data.bucket}
\* The regions the request's upload goes to and its media record is saved with.
UsedRegions(r) ==
  {r.calls[i].region : i \in {j \in DOMAIN r.calls : r.calls[j].op \in {"upload", "mediaCreate"}}}
    \cup (IF r.pc = "upload" THEN {r.client} ELSE {})
    \cup {media[i].region : i \in {j \in DOMAIN media :
            /\ Served(r) /\ r.result.status = "success"
            /\ media[j]._id = r.result.data._id}}
UploadRegions(r) ==
  {r.calls[i].region : i \in {j \in DOMAIN r.calls : r.calls[j].op = "upload"}}
    \cup (IF r.pc = "upload" THEN {r.client} ELSE {})

\* C7: a create that supplies no region, by a user who has exactly one record
\* for the bucket, of region R, when the region is looked up, uploads with
\* region R and persists R in the new record; when the user has no record
\* for the bucket then, the upload goes to the provider default region.
C7_RegionInference ==
  \A s \in Slots :
    (/\ CreateWithData(reqs[s]) /\ Falsy(reqs[s].req.data.region)
     /\ Succeeded(reqs[s], "mediaFind")) =>
      /\ \A p \in PriorRecords(reqs[s]) :
           (PriorRecords(reqs[s]) = {p} /\ ~Falsy(Seen(reqs[s])[p].region)) =>
             UsedRegions(reqs[s]) \subseteq {Seen(reqs[s])[p].region}
      /\ PriorRecords(reqs[s]) = {} => UploadRegions(reqs[s]) \subseteq {"us-east-1"}

C7_Witness ==
  \E s \in Slots :
    /\ CreateWithData(reqs[s]) /\ Falsy(reqs[s].req.data.region)
    /\ Served(reqs[s]) /\ reqs[s].result.status = "success"
    /\ \E p \in PriorRecords(reqs[s]) :
         PriorRecords(reqs[s]) = {p} /\ Seen(reqs[s])[p].region = "eu-west-1"
    /\ \E i \in DOMAIN reqs[s].calls :
         reqs[s].calls[i].op = "upload" /\ reqs[s].calls[i].region = "eu-west-1"
    /\ \E j \in DOMAIN media :
         media[j]._id = reqs[s].result.data._id /\ media[j].region = "eu-west-1"

\* ------------------------------------------------------------ C8
\* C8: in a create that resolved a complete S3 credential set, a create-bucket
\* call is issued if and only if bucket is set and newBucket is true.
C8_BucketCreation ==
  \A s \in Slots :
    (/\ CreateWithData(reqs[s]) /\ reqs[s].req.data.cloud = "s3"
     /\ Succeeded(reqs[s], "settingsFind")
     /\ CredentialsStored(reqs[s].req.data.awsAccount))
      => (Issued(reqs[s], "createBucket")
            <=> (reqs[s].req.data.bucket # "" /\ reqs[s].req.data.newBucket))

C8_Witness ==
  \E s \in Slots :
    /\ CreateWithData(reqs[s]) /\ reqs[s].req.data.cloud = "s3"
    /\ reqs[s].req.data.bucket = "b1" /\ ~reqs[s].req.data.newBucket
    /\ Succeeded(reqs[s], "upload") /\ ~Issued(reqs[s], "createBucket")

\* ------------------------------------------------------------ C9
\* The calls of a create that runs to its end, in order.
ExpectedSteps(data) ==
  <<"settingsFind">>
    \o (IF data.bucket # "" /\ data.newBucket THEN <<"createBucket">> ELSE <<>>)
    \o (IF Falsy(data.region) THEN <<"mediaFind">> ELSE <<>>)
    \o <<"upload", "mediaCreate">>

StepOrder(r) ==
  /\ IsPrefix(CallOps(r), ExpectedSteps(r.req.data))
  /\ \A i \in DOMAIN r.calls : r.calls[i].failed => (i = Len(r.calls) /\ Served(r))
  /\ (Failed(r, "createBucket") \/ Failed(r, "upload") \/ Failed(r, "mediaCreate"))
       => r.result.status = "error"
  /\ Failed(r, "mediaCreate") =>
       /\ Succeeded(r, "upload")
       /\ <<r.req.data.bucket, ObjectKey(r.req.user, r.req.data.name)>> \in DOMAIN objects
  /\ Issued(r, "mediaCreate") => Succeeded(r, "upload")

\* C9 as stated: the calls of a create are a prefix of: create-bucket (when
\* requested), region lookup, upload, media-record write; a failed call is
\* the last one; a failed bucket creation, upload or media-record write
\* gives an error result, the last of them with the object stored; a record
\* is written at most once, after its upload succeeded.
C9_StepOrder ==
  \A s \in Slots : CreateWithData(reqs[s]) => StepOrder(reqs[s])

\* What does hold: the same of the creates none of whose calls was rejected
\* with undefined or null.
C9_StepOrderOfErrorObjects ==
  \A s \in Slots :
    (CreateWithData(reqs[s]) /\ ~RejectedNullish(reqs[s])) => StepOrder(reqs[s])

\* ------------------------------------------------------------ C10
\* C10: a step of update changes the media collection only when it is the
\* answer of its patch, after its overwrite of the object succeeded, and then
\* only the name of the record; an update whose record lookup or overwrite
\* failed returns an error and has issued no patch.
C10_UpdateFrame ==
  [][\A s \in Slots :
       (reqs[s].op = "update" /\ reqs'[s].op = "update" /\ reqs'[s] # reqs[s]) =>
         /\ media' # media =>
              /\ reqs[s].pc = "mediaPatch"
              /\ Succeeded(reqs[s], "putObject")
              /\ \E i \in DOMAIN media :
                   /\ media[i]._id = reqs[s].req.data._id
                   /\ media' = [media EXCEPT ![i].name = reqs[s].req.data.name]
         /\ (Served(reqs'[s]) /\ ~Succeeded(reqs'[s], "putObject")) =>
              /\ reqs'[s].result.status = "error"
              /\ ~Issued(reqs'[s], "mediaPatch")
              /\ media' = media]_vars

C10_Witness ==
  \E s \in Slots :
    /\ UpdateWithData(reqs[s]) /\ Served(reqs[s])
    /\ Succeeded(reqs[s], "mediaGet")
    /\ ~Succeeded(reqs[s], "putObject")
    /\ reqs[s].result.status = "error"
    /\ \E i \in DOMAIN media :
         media[i]._id = reqs[s].req.data._id /\ media[i].name # reqs[s].req.data.name

====
